---- MODULE Spec2Model ----
(***************************************************************************)
(* Model of rust_audio_lib: the CoreAudio property accessor                *)
(* (src/rust_audio_lib/src/lib.rs, sys.rs), its exported C entry point,    *)
(* the demonstration binary (main.rs) and the sign-stripper helpers the    *)
(* integration test refers to.                                             *)
(*                                                                         *)
(* The native HAL is the environment.  For each of the two hardware        *)
(* properties it holds the response AudioObjectGetPropertyData would give  *)
(* right now: a status, the id it would store and the number of bytes it   *)
(* would write into the caller's buffer.                                   *)
(***************************************************************************)
EXTENDS Integers, Sequences, FiniteSets

\* ------------------------------------------------------------------ bounds
\* Device ids 1..MaxSmallId are the ordinary ids the HAL hands out.
MaxSmallId == 1
\* Sign-stripper inputs -MaxSmall..MaxSmall (plus the 32-bit boundary values).
MaxSmall == 20

\* The main thread runs any entry point; the client thread is a second thread
\* of the process that looks the default devices up.
MainThread == "main"
Threads == {MainThread, "client"}

\* ------------------------------------------------------------ 32-bit values
\* An unsigned 32-bit value is kept as its two 16-bit halves, so that the
\* values above 2^31 - 1 stay representable.
Half == 65536
U32(h, l) == [hi |-> h, lo |-> l]

MinI32 == -2147483647 - 1
MaxI32 == 2147483647

\* ------------------------------------------------------------------ sys.rs
kAudioHardwareNoError == 0
kAudioHardwareBadObjectError == 560947818
kAudioObjectUnknown == U32(0, 0)
kAudioObjectPropertyScopeGlobal == 1735159650
kAudioObjectPropertyElementMaster == 0
kAudioObjectSystemObject == U32(0, 1)
kAudioHardwarePropertyDefaultInputDevice == 1682533920
kAudioHardwarePropertyDefaultOutputDevice == 1682929012

\* mem::size_of::<AudioObjectID>()
SizeOfAudioObjectID == 4

\* A status code the wrapper has no name for
\* (kAudioHardwareUnknownPropertyError, 'who?').
UnrecognisedStatuses == {2003332927}

AudioObjectIDs ==
    {U32(0, n) : n \in 0..MaxSmallId} \cup {U32(32768, 0)}

\* What the HAL answers for one property: status, the id it stores, and how
\* many bytes of the caller's buffer it writes.
Responses ==
    {[status |-> kAudioHardwareNoError, val |-> v, written |-> SizeOfAudioObjectID] :
        v \in AudioObjectIDs}
    \cup {[status |-> kAudioHardwareNoError, val |-> kAudioObjectUnknown, written |-> w] :
        w \in {0}}
    \cup {[status |-> s, val |-> kAudioObjectUnknown, written |-> 0] :
        s \in {kAudioHardwareBadObjectError} \cup UnrecognisedStatuses}

SysStates == [in : Responses, out : Responses]

\* ------------------------------------------------------------------ lib.rs
Scopes == {"Input", "Output"}

DEFAULT_INPUT_DEVICE_PROPERTY_ADDRESS ==
    [mSelector |-> kAudioHardwarePropertyDefaultInputDevice,
     mScope |-> kAudioObjectPropertyScopeGlobal,
     mElement |-> kAudioObjectPropertyElementMaster]

DEFAULT_OUTPUT_DEVICE_PROPERTY_ADDRESS_InputSelector ==
    [mSelector |-> kAudioHardwarePropertyDefaultInputDevice,
     mScope |-> kAudioObjectPropertyScopeGlobal,
     mElement |-> kAudioObjectPropertyElementMaster]

DEFAULT_OUTPUT_DEVICE_PROPERTY_ADDRESS ==
    [mSelector |-> kAudioHardwarePropertyDefaultOutputDevice,
     mScope |-> kAudioObjectPropertyScopeGlobal,
     mElement |-> kAudioObjectPropertyElementMaster]

Addresses == {DEFAULT_INPUT_DEVICE_PROPERTY_ADDRESS, DEFAULT_OUTPUT_DEVICE_PROPERTY_ADDRESS}

\* Results.  kind is "None", "Ok", "Err" or "Panic"; err names the Error
\* variant, or holds the panic message.
NoId == U32(0, 0)
CoreNone == [kind |-> "None", val |-> NoId, err |-> "", written |-> 0]
CoreOk(v, w) == [kind |-> "Ok", val |-> v, err |-> "", written |-> w]
CoreErr(e) == [kind |-> "Err", val |-> NoId, err |-> e, written |-> 0]
CorePanic(m) == [kind |-> "Panic", val |-> NoId, err |-> m, written |-> 0]

DevNone == [kind |-> "None", val |-> 0, err |-> ""]
DevOk(d) == [kind |-> "Ok", val |-> d, err |-> ""]
DevErr(e) == [kind |-> "Err", val |-> 0, err |-> e]

\* impl From<sys::OSStatus> for Error
From(status) ==
    IF status = kAudioHardwareBadObjectError
    THEN CoreErr("InvalidParameters")
    ELSE CorePanic("Unknown error status")

\* convert_to_result: Ok(()) is CoreNone here, the caller supplies the value.
convert_to_result(status) ==
    IF status = kAudioHardwareNoError THEN CoreNone ELSE From(status)

\* id as DeviceId: the same 32 bits read as a signed integer.
to_device_id_Truncating(id) == id.lo

to_device_id(id) ==
    IF id.hi >= Half \div 2
    THEN (id.hi - Half) * Half + id.lo
    ELSE id.hi * Half + id.lo

\* The foreign function: the HAL's answer in system state s.  An object that
\* is not the system object is a bad object, and nothing is written.
AudioObjectGetPropertyData(inObjectID, inAddress, inQualifierDataSize, inQualifierData, ioDataSize, s) ==
    IF inObjectID # kAudioObjectSystemObject
    THEN [status |-> kAudioHardwareBadObjectError, val |-> kAudioObjectUnknown, written |-> 0]
    ELSE IF inAddress.mSelector = kAudioHardwarePropertyDefaultInputDevice
         THEN s.in
         ELSE s.out

NativeCall(id, address) ==
    [id |-> id, address |-> address, qualifierSize |-> 0, qualifier |-> "null",
     size |-> SizeOfAudioObjectID]

\* audio_object_get_property_data: forwards to the foreign function with an
\* empty qualifier.
audio_object_get_property_data(id, address, size, s) ==
    AudioObjectGetPropertyData(id, address, 0, "null", size, s)

\* The values `data` can hold when get_property_data returns Ok(data): the
\* buffer starts uninitialised, so unless the HAL wrote all of it the value is
\* indeterminate.
DataAfter(r) ==
    IF r.written = SizeOfAudioObjectID THEN {r.val} ELSE AudioObjectIDs

\* Outcomes of the call once the native call has been made.
AfterNative(id, address, s) ==
    LET r == audio_object_get_property_data(id, address, SizeOfAudioObjectID, s)
        c == convert_to_result(r.status)
    IN  IF c.kind = "None"
        THEN {[res |-> CoreOk(v, r.written), calls |-> <<NativeCall(id, address)>>] :
                v \in DataAfter(r)}
        ELSE {[res |-> c, calls |-> <<NativeCall(id, address)>>]}

get_property_data_NoAssert(id, address, s) == AfterNative(id, address, s)

get_property_data_AssertAfterCall(id, address, s) ==
    IF id # kAudioObjectUnknown
    THEN AfterNative(id, address, s)
    ELSE {[res |-> CorePanic("Bad AudioObjectID!"), calls |-> <<NativeCall(id, address)>>]}

\* get_property_data::<AudioObjectID>: the set of its possible outcomes in
\* system state s, each with the native calls it made.
get_property_data(id, address, s) ==
    IF id # kAudioObjectUnknown
    THEN AfterNative(id, address, s)
    ELSE {[res |-> CorePanic("Bad AudioObjectID!"), calls |-> <<>>]}

\* ------------------------------------------------------------------- state
VARIABLES
    sys,        \* the HAL's current answers
    op,         \* per thread: the entry point it is running
    pc,         \* per thread: where it is
    scope,      \* per thread: argument of get_default_device_id
    objId,      \* per thread: id argument of get_property_data
    address,    \* per thread: address argument of get_property_data
    coreResult, \* per thread: what get_property_data returned
    devResult,  \* per thread: what utils::get_default_device_id returned
    nativeLog,  \* per thread: native calls made by the current lookup
    seen,       \* per thread: the HAL's answer to the current lookup
    ptr,        \* per thread: out-pointer of the C entry point, "null" or "valid"
    cell,       \* per thread: the DeviceId the out-pointer points at
    cell0,      \* per thread: its value when the C entry point was called
    ret,        \* per thread: utils::Error returned by the C entry point
    stdout,     \* per thread: lines printed by main
    absPc, absIn, absVal, absOut   \* sign stripper

audioVars == <<sys, op, pc, scope, objId, address, coreResult, devResult, nativeLog,
               seen, ptr, cell, cell0, ret, stdout>>
absVars == <<absPc, absIn, absVal, absOut>>
vars == <<audioVars, absVars>>

NoSeen == [status |-> -1, val |-> NoId, written |-> 0]

Idle ==
    /\ op = [t \in Threads |-> "none"]
    /\ pc = [t \in Threads |-> "idle"]
    /\ scope = [t \in Threads |-> "Input"]
    /\ objId = [t \in Threads |-> kAudioObjectUnknown]
    /\ address = [t \in Threads |-> DEFAULT_INPUT_DEVICE_PROPERTY_ADDRESS]
    /\ coreResult = [t \in Threads |-> CoreNone]
    /\ devResult = [t \in Threads |-> DevNone]
    /\ nativeLog = [t \in Threads |-> <<>>]
    /\ seen = [t \in Threads |-> NoSeen]
    /\ ptr = [t \in Threads |-> "null"]
    /\ cell = [t \in Threads |-> 0]
    /\ cell0 = [t \in Threads |-> 0]
    /\ ret = [t \in Threads |-> "None"]
    /\ stdout = [t \in Threads |-> <<>>]

AbsIdle ==
    /\ absPc = "off"
    /\ absIn = 0
    /\ absVal = [kind |-> "None", val |-> 0]
    /\ absOut = [kind |-> "None", val |-> 0]

Init ==
    /\ sys \in SysStates
    /\ Idle
    /\ AbsIdle

\* ------------------------------------------------------------ entry points
\* A caller invokes utils::get_default_device_id(&scope).
CallUtils(t, sc) ==
    /\ pc[t] = "idle"
    /\ op' = [op EXCEPT ![t] = "utils"]
    /\ scope' = [scope EXCEPT ![t] = sc]
    /\ pc' = [pc EXCEPT ![t] = "select"]
    /\ UNCHANGED <<sys, objId, address, coreResult, devResult, nativeLog, seen, ptr,
                   cell, cell0, ret, stdout, absVars>>

\* The unit tests invoke get_property_data directly, with the unknown id or
\* the system object and either address.
CallCore(t, id, addr) ==
    /\ pc[t] = "idle"
    /\ op' = [op EXCEPT ![t] = "core"]
    /\ objId' = [objId EXCEPT ![t] = id]
    /\ address' = [address EXCEPT ![t] = addr]
    /\ pc' = [pc EXCEPT ![t] = "read"]
    /\ UNCHANGED <<sys, scope, coreResult, devResult, nativeLog, seen, ptr, cell, cell0,
                   ret, stdout, absVars>>

\* extern "C" get_default_device_id(scope, id): the null check.  c is what
\* the caller's DeviceId holds before the call.
CallFfi(t, sc, p, c) ==
    /\ pc[t] = "idle"
    /\ op' = [op EXCEPT ![t] = "ffi"]
    /\ scope' = [scope EXCEPT ![t] = sc]
    /\ ptr' = [ptr EXCEPT ![t] = p]
    /\ cell' = [cell EXCEPT ![t] = c]
    /\ cell0' = [cell0 EXCEPT ![t] = c]
    /\ IF p = "null"
       THEN /\ ret' = [ret EXCEPT ![t] = "InvalidParameters"]
            /\ pc' = [pc EXCEPT ![t] = "done"]
       ELSE /\ ret' = ret
            /\ pc' = [pc EXCEPT ![t] = "select"]
    /\ UNCHANGED <<sys, objId, address, coreResult, devResult, nativeLog, seen, stdout,
                   absVars>>

\* main: show_result(&Scope::Input) comes first.
CallMain(t) ==
    /\ pc[t] = "idle"
    /\ op' = [op EXCEPT ![t] = "main"]
    /\ scope' = [scope EXCEPT ![t] = "Input"]
    /\ pc' = [pc EXCEPT ![t] = "select"]
    /\ UNCHANGED <<sys, objId, address, coreResult, devResult, nativeLog, seen, ptr,
                   cell, cell0, ret, stdout, absVars>>

\* ------------------------------------------------ utils::get_default_device_id
\* The address is chosen by scope and the core read is called on the system
\* object.
SelectAddress(t) ==
    /\ pc[t] = "select"
    /\ address' = [address EXCEPT ![t] =
            IF scope[t] = "Input"
            THEN DEFAULT_INPUT_DEVICE_PROPERTY_ADDRESS
            ELSE DEFAULT_OUTPUT_DEVICE_PROPERTY_ADDRESS]
    /\ objId' = [objId EXCEPT ![t] = kAudioObjectSystemObject]
    /\ pc' = [pc EXCEPT ![t] = "read"]
    /\ UNCHANGED <<sys, op, scope, coreResult, devResult, nativeLog, seen, ptr, cell,
                   cell0, ret, stdout, absVars>>

\* get_property_data runs: assertion, buffer, native call, conversion.
ReadProperty(t) ==
    /\ pc[t] = "read"
    /\ \E o \in get_property_data(objId[t], address[t], sys) :
        /\ coreResult' = [coreResult EXCEPT ![t] = o.res]
        /\ nativeLog' = [nativeLog EXCEPT ![t] = nativeLog[t] \o o.calls]
        /\ seen' = [seen EXCEPT ![t] =
                audio_object_get_property_data(objId[t], address[t],
                                               SizeOfAudioObjectID, sys)]
        /\ pc' = [pc EXCEPT ![t] =
                IF o.res.kind = "Panic" THEN "panicked"
                ELSE IF op[t] = "core" THEN "done"
                ELSE "post"]
    /\ UNCHANGED <<sys, op, scope, objId, address, devResult, ptr, cell, cell0, ret,
                   stdout, absVars>>

\* What get_default_device_id makes of the core read's result: `?` passes an
\* error on, the unknown id is NoDevice, any other id is converted.
Postprocess(r) ==
    IF r.kind = "Err" THEN DevErr(r.err)
    ELSE IF r.val = kAudioObjectUnknown THEN DevErr("NoDevice")
    ELSE DevOk(to_device_id(r.val))

ReturnDeviceId(t) ==
    /\ pc[t] = "post"
    /\ devResult' = [devResult EXCEPT ![t] = Postprocess(coreResult[t])]
    /\ pc' = [pc EXCEPT ![t] =
            IF op[t] = "utils" THEN "done"
            ELSE IF op[t] = "ffi" THEN "ffi_match"
            ELSE "show"]
    /\ UNCHANGED <<sys, op, scope, objId, address, coreResult, nativeLog, seen, ptr,
                   cell, cell0, ret, stdout, absVars>>

\* ------------------------------------------- extern "C" get_default_device_id
FfiReturn_WritesOnError(t) ==
    /\ pc[t] = "ffi_match"
    /\ cell' = [cell EXCEPT ![t] = devResult[t].val]
    /\ ret' = [ret EXCEPT ![t] =
            IF devResult[t].kind = "Ok" THEN "Ok" ELSE devResult[t].err]
    /\ pc' = [pc EXCEPT ![t] = "done"]
    /\ UNCHANGED <<sys, op, scope, objId, address, coreResult, devResult, nativeLog,
                   seen, ptr, cell0, stdout, absVars>>

\* The match on the lookup's result: Ok stores through the pointer and
\* returns Error::Ok, Err returns the error.
FfiReturn(t) ==
    /\ pc[t] = "ffi_match"
    /\ IF devResult[t].kind = "Ok"
       THEN /\ cell' = [cell EXCEPT ![t] = devResult[t].val]
            /\ ret' = [ret EXCEPT ![t] = "Ok"]
       ELSE /\ cell' = cell
            /\ ret' = [ret EXCEPT ![t] = devResult[t].err]
    /\ pc' = [pc EXCEPT ![t] = "done"]
    /\ UNCHANGED <<sys, op, scope, objId, address, coreResult, devResult, nativeLog,
                   seen, ptr, cell0, stdout, absVars>>

\* ----------------------------------------------------------------- main.rs
Line(side, r) == [side |-> side, kind |-> r.kind, val |-> r.val, err |-> r.err]

\* show_result prints the id or the error and returns; main then calls it
\* for the output side, and ends after that.
ShowResult(t) ==
    /\ pc[t] = "show"
    /\ stdout' = [stdout EXCEPT ![t] =
            Append(stdout[t],
                   Line(IF scope[t] = "Input" THEN "input" ELSE "output", devResult[t]))]
    /\ IF scope[t] = "Input"
       THEN /\ scope' = [scope EXCEPT ![t] = "Output"]
            /\ coreResult' = [coreResult EXCEPT ![t] = CoreNone]
            /\ devResult' = [devResult EXCEPT ![t] = DevNone]
            /\ nativeLog' = [nativeLog EXCEPT ![t] = <<>>]
            /\ seen' = [seen EXCEPT ![t] = NoSeen]
            /\ pc' = [pc EXCEPT ![t] = "select"]
       ELSE /\ pc' = [pc EXCEPT ![t] = "done"]
            /\ UNCHANGED <<scope, coreResult, devResult, nativeLog, seen>>
    /\ UNCHANGED <<sys, op, objId, address, ptr, cell, cell0, ret, absVars>>

\* ------------------------------------------------------------- environment
\* The call is over (returned, or the thread panicked); the thread is free
\* for the next one.
Finish(t) ==
    /\ pc[t] \in {"done", "panicked"}
    /\ op' = [op EXCEPT ![t] = "none"]
    /\ pc' = [pc EXCEPT ![t] = "idle"]
    /\ scope' = [scope EXCEPT ![t] = "Input"]
    /\ objId' = [objId EXCEPT ![t] = kAudioObjectUnknown]
    /\ address' = [address EXCEPT ![t] = DEFAULT_INPUT_DEVICE_PROPERTY_ADDRESS]
    /\ coreResult' = [coreResult EXCEPT ![t] = CoreNone]
    /\ devResult' = [devResult EXCEPT ![t] = DevNone]
    /\ nativeLog' = [nativeLog EXCEPT ![t] = <<>>]
    /\ seen' = [seen EXCEPT ![t] = NoSeen]
    /\ ptr' = [ptr EXCEPT ![t] = "null"]
    /\ cell' = [cell EXCEPT ![t] = 0]
    /\ cell0' = [cell0 EXCEPT ![t] = 0]
    /\ ret' = [ret EXCEPT ![t] = "None"]
    /\ stdout' = [stdout EXCEPT ![t] = <<>>]
    /\ UNCHANGED <<sys, absVars>>

\* The hardware changes: the default device of one side is replaced or
\* removed, or the HAL starts or stops failing for it.
HardwareChange ==
    /\ \E side \in {"in", "out"}, r \in Responses :
        /\ r # sys[side]
        /\ sys' = [sys EXCEPT ![side] = r]
    /\ UNCHANGED <<op, pc, scope, objId, address, coreResult, devResult, nativeLog,
                   seen, ptr, cell, cell0, ret, stdout, absVars>>

CellValues == {-1, 0}

Next ==
    \/ \E t \in Threads, sc \in Scopes : CallUtils(t, sc)
    \/ \E id \in {kAudioObjectUnknown, kAudioObjectSystemObject}, addr \in Addresses :
          CallCore(MainThread, id, addr)
    \/ \E sc \in Scopes, p \in {"null", "valid"}, c \in CellValues :
          CallFfi(MainThread, sc, p, c)
    \/ CallMain(MainThread)
    \/ \E t \in Threads : SelectAddress(t)
    \/ \E t \in Threads : ReadProperty(t)
    \/ \E t \in Threads : ReturnDeviceId(t)
    \/ \E t \in Threads : FfiReturn(t)
    \/ \E t \in Threads : ShowResult(t)
    \/ \E t \in Threads : Finish(t)
    \/ HardwareChange

Spec == Init /\ [][Next]_vars

\* ----------------------------------------------------------- sign stripper
AbsNone == [kind |-> "None", val |-> 0]
AbsOk(v) == [kind |-> "Ok", val |-> v]
AbsUndefined == [kind |-> "Undefined", val |-> 0]
AbsPanic == [kind |-> "Panic", val |-> 0]

AbsInputs ==
    (-MaxSmall..MaxSmall)
    \cup {MinI32, MinI32 + 1, MaxI32, MaxI32 \div 2, MaxI32 \div 2 + 1,
          -(MaxI32 \div 2), -(MaxI32 \div 2) - 1}

\* get_abs(x): the native abs.  abs(INT_MIN) is undefined: the usual result
\* is INT_MIN itself.
get_abs(x) ==
    IF x = MinI32 THEN {AbsOk(MinI32), AbsUndefined}
    ELSE IF x < 0 THEN {AbsOk(-x)}
    ELSE {AbsOk(x)}

\* a * 2 in 32 bits: past the range it panics (overflow checks on) or wraps.
TimesTwo(a) ==
    IF a > MaxI32 \div 2 THEN {AbsPanic, AbsOk(2 * (a - (MaxI32 \div 2 + 1)) + MinI32)}
    ELSE IF a = MinI32 THEN {AbsPanic, AbsOk(0)}
    ELSE {AbsOk(a * 2)}

double_abs_NoAbs(x) ==
    IF x < 0 THEN {AbsOk(x * 2) : a \in get_abs(x)}
    ELSE UNION {IF a.kind = "Ok" THEN TimesTwo(a.val) ELSE {AbsUndefined} : a \in get_abs(x)}

\* double_abs(x) = get_abs(x) * 2
double_abs(x) ==
    UNION {IF a.kind = "Ok" THEN TimesTwo(a.val) ELSE {AbsUndefined} : a \in get_abs(x)}

CallGetAbs ==
    /\ absPc = "on"
    /\ absVal.kind = "None"
    /\ absVal' \in get_abs(absIn)
    /\ UNCHANGED <<audioVars, absPc, absIn, absOut>>

CallDoubleAbs ==
    /\ absPc = "on"
    /\ absOut.kind = "None"
    /\ absOut' \in double_abs(absIn)
    /\ UNCHANGED <<audioVars, absPc, absIn, absVal>>

\* The next input.
AbsAgain ==
    /\ absPc = "on"
    /\ absVal.kind # "None"
    /\ absOut.kind # "None"
    /\ absIn' \in AbsInputs
    /\ absVal' = AbsNone
    /\ absOut' = AbsNone
    /\ UNCHANGED <<audioVars, absPc>>

InitAbs ==
    /\ sys = [in |-> [status |-> kAudioHardwareNoError, val |-> U32(0, 1),
                      written |-> SizeOfAudioObjectID],
              out |-> [status |-> kAudioHardwareNoError, val |-> U32(0, 1),
                       written |-> SizeOfAudioObjectID]]
    /\ Idle
    /\ absPc = "on"
    /\ absIn \in AbsInputs
    /\ absVal = AbsNone
    /\ absOut = AbsNone

NextAbs == CallGetAbs \/ CallDoubleAbs \/ AbsAgain

SpecAbs == InitAbs /\ [][NextAbs]_vars

\* ================================================================== claims
Decided(t) == devResult[t].kind # "None"

\* C1: utils::get_default_device_id never returns Ok(0): a successful read of
\* the unknown id 0 gives Err(NoDevice), a successful read of any other id
\* gives Ok(d) with d # 0, also after the u32 -> i32 conversion.
C1_NeverOkZero ==
    \A t \in Threads : Decided(t) =>
        /\ devResult[t].kind = "Ok" => devResult[t].val # 0
        /\ (coreResult[t].kind = "Ok" /\ coreResult[t].val = kAudioObjectUnknown)
            => devResult[t] = DevErr("NoDevice")
        /\ (coreResult[t].kind = "Ok" /\ coreResult[t].val # kAudioObjectUnknown)
            => (devResult[t].kind = "Ok" /\ devResult[t].val # 0)

\* One lookup read the sentinel from a successful, complete native write and
\* said NoDevice; another got an id above 2^31 - 1 and returned it negative.
C1_Witness ==
    \E t, u \in Threads :
        /\ devResult[t] = DevErr("NoDevice")
        /\ coreResult[t].written = SizeOfAudioObjectID
        /\ devResult[u].kind = "Ok"
        /\ devResult[u].val < 0
        /\ coreResult[u].val.hi >= Half \div 2

CoreOver(t) == op[t] = "core" /\ pc[t] \in {"done", "panicked"}

\* C2 as stated: get_property_data with the unknown id 0 returns
\* Err(InvalidParameters), without panicking.
C2_ReturnsInvalidParameters ==
    \A t \in Threads : (CoreOver(t) /\ objId[t] = kAudioObjectUnknown) =>
        (pc[t] = "done" /\ coreResult[t] = CoreErr("InvalidParameters"))

\* C2 amended: get_property_data with the unknown id 0 and either address
\* panics with "Bad AudioObjectID!"; it returns neither an error nor a value.
C2_UnknownIdPanics ==
    \A t \in Threads : (CoreOver(t) /\ objId[t] = kAudioObjectUnknown) =>
        (pc[t] = "panicked" /\ coreResult[t] = CorePanic("Bad AudioObjectID!"))

C2_Witness ==
    \E t \in Threads :
        /\ CoreOver(t)
        /\ objId[t] = kAudioObjectUnknown
        /\ address[t] = DEFAULT_OUTPUT_DEVICE_PROPERTY_ADDRESS
        /\ coreResult[t].kind = "Panic"

ReadOver(t) == pc[t] \in {"post", "ffi_match", "show", "done", "panicked"} /\ seen[t] # NoSeen

\* C3: with a nonzero object id, every status of the native call gives a
\* typed result, Ok for 0 and an error value otherwise, and never a panic.
C3_TypedResultForEveryStatus ==
    \A t \in Threads : (objId[t] # kAudioObjectUnknown /\ ReadOver(t)) =>
        /\ pc[t] # "panicked"
        /\ seen[t].status = kAudioHardwareNoError => coreResult[t].kind = "Ok"
        /\ seen[t].status # kAudioHardwareNoError => coreResult[t].kind = "Err"

\* C4: a value returned as Ok was written in full by the native call.
C4_OkOnlyIfFullyWritten ==
    \A t \in Threads :
        coreResult[t].kind = "Ok" => coreResult[t].written = SizeOfAudioObjectID

\* C5: the assertion comes before the native layer: a call with the unknown
\* id 0 panics with "Bad AudioObjectID!" having made no native call, and the
\* native accessor only ever sees a nonzero object id.
C5_AssertBeforeNative ==
    \A t \in Threads :
        /\ \A i \in 1..Len(nativeLog[t]) : nativeLog[t][i].id # kAudioObjectUnknown
        /\ (CoreOver(t) /\ objId[t] = kAudioObjectUnknown) =>
            (nativeLog[t] = <<>> /\ coreResult[t].err = "Bad AudioObjectID!")

C5_Witness ==
    \E t, u \in Threads :
        /\ CoreOver(t)
        /\ objId[t] = kAudioObjectUnknown
        /\ pc[t] = "panicked"
        /\ nativeLog[t] = <<>>
        /\ Len(nativeLog[u]) = 1
        /\ nativeLog[u][1].id = kAudioObjectSystemObject

\* C6: main never crashes, and when it ends it has reported the input lookup
\* and then the output lookup.
C6_MainReportsBoth ==
    \A t \in Threads : op[t] = "main" =>
        /\ pc[t] # "panicked"
        /\ pc[t] = "done" =>
            (Len(stdout[t]) = 2 /\ stdout[t][1].side = "input" /\ stdout[t][2].side = "output")

\* C7: two lookups with the same scope that found the native system in the
\* same state have the same result.
C7_SameStateSameResult ==
    \A t, u \in Threads :
        (Decided(t) /\ Decided(u) /\ scope[t] = scope[u] /\ seen[t] = seen[u])
            => devResult[t] = devResult[u]

Lookup(t) == op[t] \in {"utils", "main"} \/ (op[t] = "ffi" /\ ptr[t] = "valid")

\* C8: a lookup makes exactly one native read: on the system object 1, with
\* an empty qualifier, with the default-input selector for Input and the
\* default-output selector for Output, global scope, master element 0.
C8_OneNativeRead ==
    \A t \in Threads : Lookup(t) =>
        IF pc[t] \in {"select", "read"}
        THEN nativeLog[t] = <<>>
        ELSE nativeLog[t] =
                <<[id |-> U32(0, 1),
                   address |->
                     [mSelector |-> IF scope[t] = "Input"
                                    THEN kAudioHardwarePropertyDefaultInputDevice
                                    ELSE kAudioHardwarePropertyDefaultOutputDevice,
                      mScope |-> kAudioObjectPropertyScopeGlobal,
                      mElement |-> 0],
                   qualifierSize |-> 0,
                   qualifier |-> "null",
                   size |-> SizeOfAudioObjectID]>>

C8_Witness ==
    \E t, u \in Threads :
        /\ op[t] = "utils" /\ scope[t] = "Output" /\ pc[t] = "done"
        /\ nativeLog[t][1].address.mSelector = kAudioHardwarePropertyDefaultOutputDevice
        /\ op[u] = "utils" /\ scope[u] = "Input" /\ pc[u] = "done"
        /\ nativeLog[u][1].address.mSelector = kAudioHardwarePropertyDefaultInputDevice

AbsOf(x) == IF x < 0 THEN -x ELSE x
Doubles(x) == x # MinI32 /\ AbsOf(x) <= MaxI32 \div 2

\* C9: where |x| and 2|x| are representable, double_abs(x) = 2|x| =
\* get_abs(x) * 2 = double_abs(-x) >= 0; double_abs(0) = 0, double_abs(-5) = 10,
\* double_abs(10) = 20.
C9_DoubleAbs ==
    /\ (Doubles(absIn) /\ absOut.kind # "None") =>
        /\ absOut = AbsOk(2 * AbsOf(absIn))
        /\ absOut.val >= 0
        /\ double_abs(-absIn) = {absOut}
        /\ absVal.kind # "None" => (absVal.kind = "Ok" /\ absOut.val = absVal.val * 2)
    /\ double_abs(0) = {AbsOk(0)}
    /\ double_abs(-5) = {AbsOk(10)}
    /\ double_abs(10) = {AbsOk(20)}

C9_Witness ==
    /\ absIn = -5
    /\ absVal = AbsOk(5)
    /\ absOut = AbsOk(10)

FfiOver(t) == op[t] = "ffi" /\ pc[t] = "done"

\* C10: the C entry point stores through the out-pointer only on success.  A
\* null pointer gives InvalidParameters with no native call and no store;
\* otherwise it returns Error::Ok exactly when the lookup succeeded, and then
\* *id is the device id; a lookup error is returned as it is, is never
\* Error::Ok, and leaves *id as it was.
C10_StoresOnlyOnSuccess ==
    \A t \in Threads : op[t] = "ffi" =>
        /\ ptr[t] = "null" =>
            (pc[t] = "done" /\ ret[t] = "InvalidParameters" /\ nativeLog[t] = <<>>
             /\ cell[t] = cell0[t])
        /\ (ptr[t] = "valid" /\ pc[t] = "done") =>
            /\ ret[t] = "Ok" <=> devResult[t].kind = "Ok"
            /\ ret[t] = "Ok" => cell[t] = devResult[t].val
            /\ ret[t] # "Ok" =>
                (ret[t] = devResult[t].err /\ ret[t] \in {"NoDevice", "InvalidParameters"}
                 /\ cell[t] = cell0[t])
        /\ pc[t] # "done" => cell[t] = cell0[t]

C10_Witness ==
    \E t \in Threads :
        /\ FfiOver(t)
        /\ ptr[t] = "valid"
        /\ ret[t] = "NoDevice"
        /\ cell[t] = cell0[t]
        /\ devResult[t] = DevErr("NoDevice")

====
